---- MODULE Spec2Model ----
(***************************************************************************)
(* Model of the scene-graph visualizer of kimera_dsg_visualizer:           *)
(*   scene_graph_visualizer.cpp  SceneGraphVisualizer (redraw controller,  *)
(*                               layer orchestration, clear)               *)
(*   visualizer_utils.cpp        the marker builders                       *)
(* A marker is a record; a MarkerArray is a sequence of markers; a         *)
(* publisher call appends one MarkerArray to the channel's entry of sent.  *)
(***************************************************************************)
EXTENDS Integers, Sequences, FiniteSets, TLC

VARIABLES
  scene_graph_,        \* the held graph reference (NullGraph when unset)
  need_redraw_,        \* the dirty flag
  layer_configs_,      \* LayerId -> LayerConfig, the registered layers only
  visualizer_config_,  \* the global render configuration
  sent,                \* channel -> the MarkerArrays published by the last step
  retained,            \* channel -> the add markers the transport holds, by key
  pass,                \* the local marker arrays built by the last redraw
  last,                \* the last operation called, its argument and outcome
  drawn,               \* layers a pass drew visible since the graph was set
  unchanged,           \* the transport was shown no graph but the held one
  running              \* FALSE once the process has died

vars == <<scene_graph_, need_redraw_, layer_configs_, visualizer_config_,
          sent, retained, pass, last, drawn, unchanged, running>>

----------------------------------------------------------------------------
\* Bounds of the model.
MaxSkip == 2          \* largest edge-insertion-skip count
MaxInterEdges == 4    \* longest inter-layer edge list of the edge-builder inputs
MaxNodes == 3         \* most nodes in the layer of the bounding-box inputs
MaxIntraEdges == 4    \* most intra-layer edges of the edge-walk inputs

\* KimeraDsgLayers
OBJECTS == 2
PLACES == 3
ROOMS == 4

LayerIds == {OBJECTS, PLACES, ROOMS}
NodeColors == {"blue", "green"}
Zero == "black"       \* NodeColor::Zero()
SentinelRed == "red"  \* desired_color << 1.0, 0.0, 0.0

Channels == {"semantic_instance_centroid", "bounding_boxes", "instance_ids",
             "edges_centroid_pcl", "edges_node_node"}

----------------------------------------------------------------------------
\* Graph values.  nodes and edges are keyed by layer id; every sequence is in
\* the traversal order of the std::map it stands for (ascending key).
NullGraph == [null |-> TRUE, nodes |-> <<>>, edges |-> <<>>, inter |-> <<>>]

Node(id, layer, kind, color, mesh) ==
  [id |-> id, layer |-> layer, kind |-> kind, color |-> color, mesh |-> mesh]

Edge(s, t) == [source |-> s, target |-> t]

layers(graph) == DOMAIN graph.nodes

Layer(graph, l) == [id |-> l, nodes |-> graph.nodes[l], edges |-> graph.edges[l]]

AllNodes(graph) ==
  UNION {{graph.nodes[l][i] : i \in 1..Len(graph.nodes[l])} : l \in layers(graph)}

getNode(graph, id) == CHOOSE n \in AllNodes(graph) : n.id = id

numNodes(graph) == Cardinality(AllNodes(graph))

empty(graph) == numNodes(graph) = 0

RECURSIVE SortedSeq(_)
SortedSeq(S) ==
  IF S = {} THEN <<>>
  ELSE LET m == CHOOSE x \in S : \A y \in S : x <= y
       IN <<m>> \o SortedSeq(S \ {m})

\* node.attributes<T>() succeeds when the node's attributes are T or derive
\* from it, and throws std::bad_cast otherwise.
IsKind(kind, requested) ==
  CASE requested = "Node" -> TRUE
    [] requested = "Semantic" -> kind \in {"Semantic", "Object", "Place"}
    [] requested = "Object" -> kind = "Object"
    [] requested = "Place" -> kind = "Place"

----------------------------------------------------------------------------
\* Markers.
Ns(name, layer) == [name |-> name, layer |-> layer]

Marker(action, id, ns, type, points, colors) ==
  [action |-> action, id |-> id, ns |-> ns, type |-> type,
   points |-> points, colors |-> colors]

Pt(kind, node, idx) == [kind |-> kind, node |-> node, idx |-> idx]

Key(m) == <<m.ns, m.id>>

\* Result of a call that may throw.
Ok(v) == [threw |-> FALSE, val |-> v]
Threw == [threw |-> TRUE, val |-> <<>>]

makeDeleteMarker(id, marker_ns) ==
  Marker("DELETE", id, marker_ns, "NONE", <<>>, <<>>)

makeBoundingBoxMarker(config, node, marker_namespace) ==
  Marker("ADD", node.id, marker_namespace, "CUBE", <<>>, <<node.color>>)

makeTextMarker(config, node, marker_namespace) ==
  Marker("ADD", node.id, marker_namespace, "TEXT_VIEW_FACING", <<>>, <<Zero>>)

RECURSIVE CentroidLoopPerNode(_, _, _, _, _, _, _, _)
CentroidLoopPerNode(config, layer, visualizer_config, layer_color, i, valid, pts, cols) ==
  IF i > Len(layer.nodes) THEN Ok([points |-> pts, colors |-> cols])
  ELSE
    LET n == layer.nodes[i]
        p == Append(pts, Pt("node", n.id, 0))
        next(c, v) == CentroidLoopPerNode(config, layer, visualizer_config,
                                          layer_color, i + 1, v, p, Append(cols, c))
    IN IF layer_color # <<>> THEN next(layer_color[1], valid)
       ELSE IF visualizer_config.color_places_by_distance /\ layer.id = PLACES
         THEN IF IsKind(n.kind, "Place") THEN next("ramp", valid) ELSE Threw
       ELSE IF IsKind(n.kind, "Semantic") THEN next(n.color, valid)
       ELSE next(SentinelRed, valid)

RECURSIVE CentroidLoop(_, _, _, _, _, _, _, _)
CentroidLoop(config, layer, visualizer_config, layer_color, i, valid, pts, cols) ==
  IF i > Len(layer.nodes) THEN Ok([points |-> pts, colors |-> cols])
  ELSE
    LET n == layer.nodes[i]
        p == Append(pts, Pt("node", n.id, 0))
        next(c, v) == CentroidLoop(config, layer, visualizer_config, layer_color,
                                   i + 1, v, p, Append(cols, c))
    IN IF layer_color # <<>> THEN next(layer_color[1], valid)
       ELSE IF ~valid THEN next(SentinelRed, valid)
       ELSE IF visualizer_config.color_places_by_distance /\ layer.id = PLACES
         THEN IF IsKind(n.kind, "Place") THEN next("ramp", valid) ELSE Threw
       ELSE IF IsKind(n.kind, "Semantic") THEN next(n.color, valid)
       ELSE next(SentinelRed, FALSE)

makeCentroidMarkers(config, layer, visualizer_config, layer_color, marker_namespace) ==
  LET r == CentroidLoop(config, layer, visualizer_config, layer_color,
                        1, TRUE, <<>>, <<>>)
  IN IF r.threw THEN Threw
     ELSE Ok(Marker("ADD", layer.id, marker_namespace,
                    IF config.use_sphere_marker THEN "SPHERE_LIST" ELSE "CUBE_LIST",
                    r.val.points, r.val.colors))

RECURSIVE MeshFan(_, _, _, _, _, _)
MeshFan(node, config, i, pts, cols, c) ==
  IF i >= node.mesh THEN [points |-> pts, colors |-> cols]
  ELSE MeshFan(node, config, i + config.interlayer_edge_insertion_skip + 1,
               pts \o <<Pt("break", node.id, 0), Pt("mesh", node.id, i)>>,
               cols \o <<c, c>>, c)

RECURSIVE MeshLoop(_, _, _, _, _)
MeshLoop(config, layer, i, pts, cols) ==
  IF i > Len(layer.nodes) THEN Ok([points |-> pts, colors |-> cols])
  ELSE
    LET node == layer.nodes[i]
        c == IF config.interlayer_edge_use_color THEN node.color ELSE Zero
        fan == MeshFan(node, config, 0,
                       pts \o <<Pt("node", node.id, 0), Pt("break", node.id, 0)>>,
                       cols \o <<c, c>>, c)
    IN IF node.mesh = 0 THEN MeshLoop(config, layer, i + 1, pts, cols)
       ELSE IF ~IsKind(node.kind, "Semantic") THEN Threw
       ELSE MeshLoop(config, layer, i + 1, fan.points, fan.colors)

makeMeshEdgesMarker(config, layer, marker_namespace) ==
  LET r == MeshLoop(config, layer, 1, <<>>, <<>>)
  IN IF r.threw THEN Threw
     ELSE Ok(Marker("ADD", layer.id, marker_namespace, "LINE_LIST",
                    r.val.points, r.val.colors))

makeNewEdgeListAlwaysAdd(config, layer_id) ==
  Marker("ADD", layer_id, Ns("graph_edges", 0), "LINE_LIST", <<>>, <<>>)

makeNewEdgeList(config, layer_id) ==
  Marker(IF config.visualize THEN "ADD" ELSE "DELETE", layer_id,
         Ns("graph_edges", 0), "LINE_LIST", <<>>, <<>>)

CounterKeyShared(source) == 0

\* The key of num_since_last_insertion that an edge from source counts under.
CounterKey(source) == source.layer

\* One iteration of the loop over graph.inter_layer_edges(); st holds the two
\* local maps layer_markers and num_since_last_insertion.
GraphEdgeStep(graph, configs, st, edge) ==
  LET source == getNode(graph, edge.source)
      target == getNode(graph, edge.target)
      fresh == source.layer \notin DOMAIN st.layer_markers
      first == makeNewEdgeList(configs[source.layer], source.layer)
      created ==
        IF fresh
        THEN [layer_markers |-> (source.layer :>
                 IF ~configs[target.layer].visualize
                 THEN [first EXCEPT !.action = "DELETE"] ELSE first)
                 @@ st.layer_markers,
              num_since_last_insertion |->
                 (CounterKey(source) :> 0) @@ st.num_since_last_insertion]
        ELSE st
      num_between_insertions == configs[source.layer].interlayer_edge_insertion_skip
      since == created.num_since_last_insertion[CounterKey(source)]
      colored == configs[source.layer].interlayer_edge_use_color
      picked == IF configs[source.layer].use_edge_source THEN source ELSE target
      edge_color == IF colored THEN picked.color ELSE Zero
      marker == created.layer_markers[source.layer]
      drawnMarker ==
        [marker EXCEPT
           !.points = @ \o <<Pt("node", source.id, 0), Pt("node", target.id, 0)>>,
           !.colors = @ \o <<edge_color, edge_color>>]
  IN IF fresh /\ source.layer \notin DOMAIN configs THEN Threw
     ELSE IF fresh /\ target.layer \notin DOMAIN configs THEN Threw
     ELSE IF ~configs[source.layer].visualize THEN Ok(created)
     ELSE IF target.layer \notin DOMAIN configs THEN Threw
     ELSE IF ~configs[target.layer].visualize THEN Ok(created)
     ELSE IF since < num_between_insertions
       THEN Ok([created EXCEPT
                  !.num_since_last_insertion[CounterKey(source)] = since + 1])
     ELSE IF colored /\ ~IsKind(picked.kind, "Semantic") THEN Threw
     ELSE Ok([layer_markers |->
                 (source.layer :> drawnMarker) @@ created.layer_markers,
              num_since_last_insertion |->
                 (CounterKey(source) :> 0) @@ created.num_since_last_insertion])

RECURSIVE GraphEdgeLoop(_, _, _, _)
GraphEdgeLoop(graph, configs, st, i) ==
  IF i > Len(graph.inter) THEN Ok(st)
  ELSE LET r == GraphEdgeStep(graph, configs, st, graph.inter[i])
       IN IF r.threw THEN Threw ELSE GraphEdgeLoop(graph, configs, r.val, i + 1)

makeGraphEdgeMarkers(graph, configs) ==
  LET r == GraphEdgeLoop(graph, configs,
                         [layer_markers |-> <<>>,
                          num_since_last_insertion |-> <<>>], 1)
      order == SortedSeq(DOMAIN r.val.layer_markers)
  IN IF r.threw THEN Threw
     ELSE Ok([k \in 1..Len(order) |-> r.val.layer_markers[order[k]]])

\* The walk of makeLayerEdgeMarkers; pos is the cursor (0-based, Len = end()).
\* std::advance past end() is undefined: ub names the outcome the build gives,
\* "extra" (the cursor lands on the last edge again, which is emitted once
\* more before the walk ends) or "abort" (the process dies or never returns).
UBOutcomes == {"extra", "abort"}

EdgePts(e) == <<Pt("node", e.source, 0), Pt("node", e.target, 0)>>

RECURSIVE EdgeWalk(_, _, _, _, _)
EdgeWalk(edges, skip, pos, pts, ub) ==
  IF pos = Len(edges) THEN [status |-> "ok", points |-> pts]
  ELSE
    LET emitted == pts \o EdgePts(edges[pos + 1])
        advanced == pos + skip + 1
    IN IF advanced <= Len(edges) THEN EdgeWalk(edges, skip, advanced, emitted, ub)
       ELSE IF ub = "extra"
         THEN [status |-> "ok", points |-> emitted \o EdgePts(edges[Len(edges)])]
       ELSE [status |-> "abort", points |-> emitted]

makeLayerEdgeMarkers(config, layer, ub) ==
  IF ~config.visualize
  THEN [status |-> "ok",
        marker |-> Marker("DELETE", 0, Ns("layer_edges", layer.id),
                          "LINE_LIST", <<>>, <<>>)]
  ELSE LET w == EdgeWalk(layer.edges, config.intralayer_edge_insertion_skip,
                         0, <<>>, ub)
       IN [status |-> w.status,
           marker |-> Marker("ADD", 0, Ns("layer_edges", layer.id),
                             "LINE_LIST", w.points, <<>>)]

----------------------------------------------------------------------------
\* The handle* members: each returns the marker array it was given, extended.
handleCentroids(layer, config, visualizer_config, markers) ==
  LET ns == Ns("layer_centroids", 0)
      made == makeCentroidMarkers(config, layer, visualizer_config, <<>>, ns)
  IN IF config.visualize
     THEN IF made.threw THEN Threw ELSE Ok(Append(markers, made.val))
     ELSE Ok(Append(markers, makeDeleteMarker(layer.id, ns)))

handleMeshEdges(layer, config, markers) ==
  LET ns == Ns("mesh_layer_edges", 0)
      made == makeMeshEdgesMarker(config, layer, ns)
  IN IF layer.id # OBJECTS THEN Ok(markers)
     ELSE IF config.visualize
       THEN IF made.threw THEN Threw ELSE Ok(Append(markers, made.val))
     ELSE Ok(Append(markers, makeDeleteMarker(layer.id, ns)))

RECURSIVE LabelLoop(_, _, _, _)
LabelLoop(layer, config, i, markers) ==
  IF i > Len(layer.nodes) THEN markers
  ELSE LET node == layer.nodes[i]
           ns == Ns("layer_text", layer.id)
       IN LabelLoop(layer, config, i + 1,
            Append(markers,
                   IF config.visualize /\ config.use_label
                   THEN makeTextMarker(config, node, ns)
                   ELSE makeDeleteMarker(node.id, ns)))

handleLabels(layer, config, markers) == LabelLoop(layer, config, 1, markers)

RECURSIVE BoundingBoxLoop(_, _, _, _)
BoundingBoxLoop(layer, config, i, markers) ==
  IF i > Len(layer.nodes) THEN markers
  ELSE LET node == layer.nodes[i]
           ns == Ns("layer_bounding_boxes", layer.id)
       IN IF config.visualize /\ config.use_bounding_box
          THEN IF ~IsKind(node.kind, "Object") THEN markers   \* return
               ELSE BoundingBoxLoop(layer, config, i + 1,
                      Append(markers, makeBoundingBoxMarker(config, node, ns)))
          ELSE BoundingBoxLoop(layer, config, i + 1,
                 Append(markers, makeDeleteMarker(node.id, ns)))

handleBoundingBoxes(layer, config, markers) ==
  BoundingBoxLoop(layer, config, 1, markers)

\* The four local MarkerArrays of displayLayers.
NoArrays ==
  [layer_centroids |-> <<>>, text_markers |-> <<>>,
   line_assoc_markers |-> <<>>, bounding_boxes |-> <<>>]

\* The body of the loop over scene_graph.layers() for one configured layer:
\* c, b and m are what handleCentroids, handleLabels followed by
\* handleBoundingBoxes, and handleMeshEdges return.
LayerArrays(c, b, m, arrays) ==
  IF c.threw \/ m.threw THEN Threw
  ELSE Ok([layer_centroids |-> c.val, text_markers |-> b,
           line_assoc_markers |-> m.val,
           bounding_boxes |-> arrays.bounding_boxes])

LayerStep(layer, config, visualizer_config, arrays) ==
  LayerArrays(
    handleCentroids(layer, config, visualizer_config, arrays.layer_centroids),
    handleBoundingBoxes(layer, config,
                        handleLabels(layer, config, arrays.text_markers)),
    handleMeshEdges(layer, config, arrays.line_assoc_markers),
    arrays)

RECURSIVE LayersLoop(_, _, _, _, _)
LayersNext(r, graph, configs, visualizer_config, order) ==
  IF r.threw THEN Threw
  ELSE LayersLoop(graph, configs, visualizer_config, Tail(order), r.val)

LayersLoop(graph, configs, visualizer_config, order, arrays) ==
  IF order = <<>> THEN Ok(arrays)
  ELSE IF Head(order) \notin DOMAIN configs
    THEN LayersLoop(graph, configs, visualizer_config, Tail(order), arrays)
  ELSE LayersNext(LayerStep(Layer(graph, Head(order)), configs[Head(order)],
                            visualizer_config, arrays),
                  graph, configs, visualizer_config, order)

NoneSent == [ch \in Channels |-> <<>>]

publish(s, ch, array) == [s EXCEPT ![ch] = Append(@, array)]

PublishLayersUnguarded(arrays) ==
  publish(publish(publish(publish(NoneSent,
    "semantic_instance_centroid", arrays.layer_centroids),
    "bounding_boxes", arrays.bounding_boxes),
    "instance_ids", arrays.text_markers),
    "edges_centroid_pcl", arrays.line_assoc_markers)

\* The publish calls that end displayLayers.
PublishLayers(arrays) ==
  LET s1 == IF arrays.layer_centroids # <<>>
            THEN publish(NoneSent, "semantic_instance_centroid", arrays.layer_centroids)
            ELSE NoneSent
      s2 == IF arrays.bounding_boxes # <<>>
            THEN publish(s1, "bounding_boxes", arrays.bounding_boxes) ELSE s1
      s3 == IF arrays.text_markers # <<>>
            THEN publish(s2, "instance_ids", arrays.text_markers) ELSE s2
  IN IF arrays.line_assoc_markers # <<>>
     THEN publish(s3, "edges_centroid_pcl", arrays.line_assoc_markers) ELSE s3

LayersResult(r) ==
  IF r.threw THEN [threw |-> TRUE, arrays |-> NoArrays, sent |-> NoneSent]
  ELSE [threw |-> FALSE, arrays |-> r.val, sent |-> PublishLayers(r.val)]

displayLayers(graph, configs, visualizer_config) ==
  LayersResult(LayersLoop(graph, configs, visualizer_config,
                          SortedSeq(layers(graph)), NoArrays))

RECURSIVE LayerEdgesLoop(_, _, _, _, _)
LayerEdgesNext(made, graph, configs, order, edge_markers, ub) ==
  IF made.status # "ok"
  THEN [status |-> made.status, edge_markers |-> edge_markers]
  ELSE LayerEdgesLoop(graph, configs, Tail(order),
                      Append(edge_markers, made.marker), ub)

LayerEdgesLoop(graph, configs, order, edge_markers, ub) ==
  IF order = <<>> THEN [status |-> "ok", edge_markers |-> edge_markers]
  ELSE IF Len(graph.edges[Head(order)]) = 0 \/ Head(order) \notin DOMAIN configs
    THEN LayerEdgesLoop(graph, configs, Tail(order), edge_markers, ub)
  ELSE LayerEdgesNext(makeLayerEdgeMarkers(configs[Head(order)],
                                           Layer(graph, Head(order)), ub),
                      graph, configs, order, edge_markers, ub)

\* The publish call that ends displayEdges.
PublishEdges(s, edge_markers) == publish(s, "edges_node_node", edge_markers)

EdgesResult(r, s) ==
  IF r.status # "ok"
  THEN [status |-> r.status, edge_markers |-> r.edge_markers, sent |-> s]
  ELSE [status |-> "ok", edge_markers |-> r.edge_markers,
        sent |-> PublishEdges(s, r.edge_markers)]

\* The rest of displayEdges once makeGraphEdgeMarkers has returned g.
LayerEdges(g, graph, configs, s, ub) ==
  IF g.threw THEN [status |-> "throw", edge_markers |-> <<>>, sent |-> s]
  ELSE EdgesResult(LayerEdgesLoop(graph, configs, SortedSeq(layers(graph)),
                                  g.val, ub), s)

displayEdges(graph, configs, s, ub) ==
  LayerEdges(makeGraphEdgeMarkers(graph, configs), graph, configs, s, ub)

----------------------------------------------------------------------------
\* The render transport: per channel it keeps the last add marker per
\* (namespace, identifier); a delete drops the key, a delete-all every key.
ApplyMarker(held, m) ==
  CASE m.action = "DELETEALL" -> {}
    [] m.action = "DELETE" -> {h \in held : Key(h) # Key(m)}
    [] OTHER -> {h \in held : Key(h) # Key(m)} \cup {m}

RECURSIVE ApplyArray(_, _)
ApplyArray(held, array) ==
  IF array = <<>> THEN held
  ELSE ApplyArray(ApplyMarker(held, Head(array)), Tail(array))

RECURSIVE ApplyArrays(_, _)
ApplyArrays(held, arrays) ==
  IF arrays = <<>> THEN held
  ELSE ApplyArrays(ApplyArray(held, Head(arrays)), Tail(arrays))

Deliver(ret, s) == [ch \in Channels |-> ApplyArrays(ret[ch], s[ch])]

----------------------------------------------------------------------------
\* The redraw controller.
NoPass ==
  [ran |-> FALSE, status |-> "none", layersDone |-> FALSE,
   arrays |-> NoArrays, edge_markers |-> <<>>]

Called(op, null, nodes, result) ==
  [op |-> op, null |-> null, nodes |-> nodes, result |-> result]

\* Layers of the graph that a completed displayLayers drew with visualize set.
VisibleLayers(graph, configs) ==
  {l \in layers(graph) \cap DOMAIN configs : configs[l].visualize}

configUpdateCb(config) ==
  /\ running
  /\ visualizer_config_' = config
  /\ need_redraw_' = TRUE
  /\ sent' = NoneSent
  /\ pass' = NoPass
  /\ last' = Called("configUpdateCb", FALSE, 0, "done")
  /\ UNCHANGED <<scene_graph_, layer_configs_, retained, drawn, unchanged,
                 running>>

\* The callback is bound only for the layer ids given to the constructor.
layerConfigUpdateCb(layer_id, config) ==
  /\ running
  /\ layer_id \in DOMAIN layer_configs_
  /\ layer_configs_' = [layer_configs_ EXCEPT ![layer_id] = config]
  /\ need_redraw_' = TRUE
  /\ sent' = NoneSent
  /\ pass' = NoPass
  /\ last' = Called("layerConfigUpdateCb", FALSE, 0, "done")
  /\ UNCHANGED <<scene_graph_, visualizer_config_, retained, drawn, unchanged,
                 running>>

RejectsGraphNullOnly(scene_graph) == scene_graph.null

\* The guard of setGraph: a null or empty graph is refused.
RejectsGraph(scene_graph) == scene_graph.null \/ empty(scene_graph)

setGraph(scene_graph) ==
  /\ running
  /\ sent' = NoneSent
  /\ pass' = NoPass
  /\ UNCHANGED <<layer_configs_, visualizer_config_, retained, running>>
  /\ IF RejectsGraph(scene_graph)
     THEN /\ last' = Called("setGraph", scene_graph.null, numNodes(scene_graph),
                            "rejected")
          /\ UNCHANGED <<scene_graph_, need_redraw_, drawn, unchanged>>
     ELSE /\ scene_graph_' = scene_graph
          /\ need_redraw_' = TRUE
          /\ drawn' = IF scene_graph = scene_graph_ THEN drawn ELSE {}
          /\ unchanged' = \/ \A ch \in Channels : retained[ch] = {}
                          \/ unchanged /\ scene_graph = scene_graph_
          /\ last' = Called("setGraph", scene_graph.null, numNodes(scene_graph),
                            "accepted")

ShouldDrawIgnoringFlag(scene_graph, dirty) == ~scene_graph.null

\* The two early returns of redraw.
ShouldDraw(scene_graph, dirty) == ~scene_graph.null /\ dirty

\* displayLayers followed by displayEdges; an exception of the first skips
\* the second.
PassResult(dl, de) ==
  [ran |-> TRUE, status |-> de.status, arrays |-> dl.arrays,
   edge_markers |-> de.edge_markers, sent |-> de.sent, layersDone |-> TRUE]

EdgesAfterLayers(dl, graph, configs, ub) ==
  IF dl.threw
  THEN [ran |-> TRUE, status |-> "throw", arrays |-> NoArrays,
        edge_markers |-> <<>>, sent |-> NoneSent, layersDone |-> FALSE]
  ELSE PassResult(dl, displayEdges(graph, configs, dl.sent, ub))

RunPass(graph, configs, visualizer_config, ub) ==
  EdgesAfterLayers(displayLayers(graph, configs, visualizer_config),
                   graph, configs, ub)

\* The state change of a redraw that runs the pass p.
Drawn(p) ==
  /\ need_redraw_' = FALSE
  /\ pass' = [ran |-> TRUE, status |-> p.status,
              layersDone |-> p.layersDone, arrays |-> p.arrays,
              edge_markers |-> p.edge_markers]
  /\ sent' = p.sent
  /\ retained' = Deliver(retained, p.sent)
  /\ running' = (p.status # "abort")
  /\ drawn' = IF p.layersDone
              THEN drawn \cup VisibleLayers(scene_graph_, layer_configs_)
              ELSE drawn
  /\ last' = Called("redraw", FALSE, 0,
                    CASE p.status = "ok" -> "true" [] OTHER -> p.status)

redraw(ub) ==
  /\ running
  /\ UNCHANGED <<scene_graph_, layer_configs_, visualizer_config_, unchanged>>
  /\ IF ShouldDraw(scene_graph_, need_redraw_)
     THEN Drawn(RunPass(scene_graph_, layer_configs_, visualizer_config_, ub))
     ELSE /\ pass' = NoPass
          /\ sent' = NoneSent
          /\ last' = Called("redraw", FALSE, 0, "false")
          /\ UNCHANGED <<need_redraw_, retained, running, drawn>>

getDeleteAllMarker == <<Marker("DELETEALL", 0, Ns("", 0), "NONE", <<>>, <<>>)>>

clearKeepingGraph ==
  /\ running
  /\ sent' = [ch \in Channels |-> <<getDeleteAllMarker>>]
  /\ retained' = Deliver(retained, sent')
  /\ pass' = NoPass
  /\ drawn' = {}
  /\ unchanged' = TRUE
  /\ last' = Called("clear", FALSE, 0, "done")
  /\ UNCHANGED <<scene_graph_, need_redraw_, layer_configs_, visualizer_config_,
                 running>>

clear ==
  /\ running
  /\ scene_graph_' = NullGraph
  /\ sent' = [ch \in Channels |-> <<getDeleteAllMarker>>]
  /\ retained' = Deliver(retained, sent')
  /\ pass' = NoPass
  /\ drawn' = {}
  /\ unchanged' = TRUE
  /\ last' = Called("clear", FALSE, 0, "done")
  /\ UNCHANGED <<need_redraw_, layer_configs_, visualizer_config_, running>>

----------------------------------------------------------------------------
\* Inputs.
LayerConfig(vis, label, box, inter_skip, intra_skip, color, edge_source) ==
  [visualize |-> vis, use_label |-> label,
   use_bounding_box |-> box, use_sphere_marker |-> FALSE,
   interlayer_edge_insertion_skip |-> inter_skip,
   intralayer_edge_insertion_skip |-> intra_skip,
   interlayer_edge_use_color |-> color, use_edge_source |-> edge_source]

VisualizerConfigs == {[color_places_by_distance |-> b] : b \in BOOLEAN}

NodesOf(l, kinds) ==
  [i \in 1..Len(kinds) |->
     Node(10 * l + i, l, kinds[i],
          IF i % 2 = 1 THEN "blue" ELSE "green",
          IF l = OBJECTS THEN i - 1 ELSE 0)]

\* n intra-layer edges over the k nodes of layer l, around the ring of nodes.
RingEdges(l, k, n) ==
  [i \in 1..(IF k = 0 THEN 0 ELSE n) |->
     Edge(10 * l + ((i - 1) % k) + 1, 10 * l + (i % k) + 1)]

MkGraph(kinds, nedges, inter) ==
  [null |-> FALSE,
   nodes |-> [l \in DOMAIN kinds |-> NodesOf(l, kinds[l])],
   edges |-> [l \in DOMAIN kinds |-> RingEdges(l, Len(kinds[l]), nedges[l])],
   inter |-> inter]

\* The graphs handed to setGraph in the controller specification.
GraphRooms ==
  MkGraph((OBJECTS :> <<"Object", "Semantic", "Object">>)
            @@ (PLACES :> <<"Place", "Node">>) @@ (ROOMS :> <<"Semantic">>),
          (OBJECTS :> 2) @@ (PLACES :> 1) @@ (ROOMS :> 0),
          <<Edge(41, 21), Edge(41, 31)>>)

GraphObject == MkGraph((OBJECTS :> <<"Object">>), (OBJECTS :> 0), <<>>)

GraphNoNodes ==
  MkGraph((OBJECTS :> <<>>) @@ (PLACES :> <<>>), (OBJECTS :> 0) @@ (PLACES :> 0), <<>>)

CtlGraphs == {NullGraph, GraphNoNodes, GraphObject, GraphRooms}

\* The layer configurations of the controller specification: hidden, drawn
\* with labels, boxes and a skip count, and (objects layer) drawn plain.
Hidden == LayerConfig(FALSE, TRUE, TRUE, 0, 0, FALSE, TRUE)
Decorated == LayerConfig(TRUE, TRUE, TRUE, 1, 1, FALSE, TRUE)
Plain == LayerConfig(TRUE, FALSE, FALSE, 0, 0, FALSE, TRUE)

CtlConfigs(l) == IF l = OBJECTS THEN {Hidden, Decorated, Plain} ELSE {Hidden, Decorated}

\* The layer-id lists given to the constructor.
CtlLayerIds == {{OBJECTS, PLACES, ROOMS}, {OBJECTS, ROOMS}}

\* Inputs of the builder specification.  Bounding boxes: one objects layer
\* whose nodes are any mix of attribute kinds.
BoxKinds == {"Semantic", "Object", "Place"}

BoxGraphs ==
  {MkGraph((OBJECTS :> ks), (OBJECTS :> 0), <<>>) :
     ks \in UNION {[1..k -> BoxKinds] : k \in 1..MaxNodes}}

BoxConfigs == {LayerConfig(v, TRUE, b, 0, 0, FALSE, TRUE) : v \in BOOLEAN, b \in BOOLEAN}

\* Inter-layer edges: three layers, and any list of edges rooms -> places,
\* rooms -> objects, places -> objects; the i-th edge ends at the i-th node
\* of its target layer.
EdgeKinds == {<<ROOMS, PLACES>>, <<ROOMS, OBJECTS>>, <<PLACES, OBJECTS>>}

EdgeLists ==
  UNION {{[i \in 1..n |-> Edge(10 * ty[i][1] + 1, 10 * ty[i][2] + i)] :
            ty \in [1..n -> EdgeKinds]} : n \in 0..MaxInterEdges}

EdgeGraphs ==
  {MkGraph([l \in LayerIds |-> [i \in 1..MaxInterEdges |-> "Semantic"]],
           [l \in LayerIds |-> 2], inter) : inter \in EdgeLists}

\* Centroids: one places or rooms layer whose nodes are any mix of attribute
\* kinds, with and without attributes of the Semantic kind.
CentroidKinds == {"Node", "Semantic", "Place"}

CentroidGraphs ==
  {MkGraph((l :> ks), (l :> 0), <<>>) :
     l \in {PLACES, ROOMS},
     ks \in UNION {[1..k -> CentroidKinds] : k \in 1..MaxNodes}}

CentroidConfigs == {LayerConfig(v, FALSE, FALSE, 0, 0, FALSE, TRUE) : v \in BOOLEAN}

\* The intra-layer walk: one rooms layer with n edges over n + 1 nodes, and
\* every skip count.
WalkGraphs ==
  {MkGraph((ROOMS :> [i \in 1..(n + 1) |-> "Semantic"]), (ROOMS :> n), <<>>) :
     n \in 0..MaxIntraEdges}

WalkConfigs ==
  {LayerConfig(v, FALSE, FALSE, 0, n, FALSE, TRUE) : v \in BOOLEAN, n \in 0..MaxSkip}

\* Every layer drawn, or exactly one of them hidden.
EdgeVisibility ==
  {[l \in LayerIds |-> l # h] : h \in LayerIds \cup {0}}

EdgeConfigs ==
  {[l \in LayerIds |->
      LayerConfig(vis[l], FALSE, FALSE,
                  IF l = ROOMS THEN n4 ELSE IF l = PLACES THEN n3 ELSE 0,
                  0, FALSE, TRUE)] :
     vis \in EdgeVisibility, n4 \in 0..MaxSkip, n3 \in 0..MaxSkip}

Quiet ==
  /\ need_redraw_ = FALSE
  /\ sent = NoneSent
  /\ retained = [ch \in Channels |-> {}]
  /\ pass = NoPass
  /\ last = Called("init", FALSE, 0, "done")
  /\ drawn = {}
  /\ unchanged = TRUE
  /\ running = TRUE

Init ==
  /\ scene_graph_ = NullGraph
  /\ \E ids \in CtlLayerIds :
        /\ layer_configs_ \in [ids -> {Hidden, Decorated, Plain}]
        /\ \A l \in ids : layer_configs_[l] \in CtlConfigs(l)
  /\ visualizer_config_ \in VisualizerConfigs
  /\ Quiet

displayLoop == \E ub \in UBOutcomes : redraw(ub)

Next ==
  \/ \E g \in CtlGraphs : setGraph(g)
  \/ \E c \in VisualizerConfigs : configUpdateCb(c)
  \/ \E l \in LayerIds : \E c \in CtlConfigs(l) : layerConfigUpdateCb(l, c)
  \/ displayLoop
  \/ clear

Spec == Init /\ [][Next]_vars

\* The builder specification: a graph and a configuration drawn from the
\* builder inputs, set and armed, and then the ticks.
Armed ==
  /\ sent = NoneSent
  /\ retained = [ch \in Channels |-> {}]
  /\ pass = NoPass
  /\ last = Called("setGraph", FALSE, numNodes(scene_graph_), "accepted")
  /\ drawn = {}
  /\ unchanged = TRUE
  /\ running = TRUE
  /\ need_redraw_ = TRUE

InitBuild ==
  /\ \/ /\ scene_graph_ \in BoxGraphs
        /\ layer_configs_ \in [{OBJECTS} -> BoxConfigs]
        /\ visualizer_config_ = [color_places_by_distance |-> FALSE]
     \/ /\ scene_graph_ \in EdgeGraphs
        /\ layer_configs_ \in EdgeConfigs
        /\ visualizer_config_ = [color_places_by_distance |-> FALSE]
     \/ /\ scene_graph_ \in WalkGraphs
        /\ layer_configs_ \in [{ROOMS} -> WalkConfigs]
        /\ visualizer_config_ = [color_places_by_distance |-> FALSE]
     \/ /\ scene_graph_ \in CentroidGraphs
        /\ layer_configs_ \in [layers(scene_graph_) -> CentroidConfigs]
        /\ visualizer_config_ \in VisualizerConfigs
  /\ Armed

SpecBuild == InitBuild /\ [][displayLoop]_vars

----------------------------------------------------------------------------
\* Properties of the redraw controller (specification Spec).

LayerChannels == Channels \ {"edges_node_node"}

Arrays(ch) == {sent[ch][i] : i \in 1..Len(sent[ch])}

Markers(array) == {array[i] : i \in 1..Len(array)}

SentMarkers(ch) == UNION {Markers(a) : a \in Arrays(ch)}

C10_RejectedSetGraph ==
  [][(last'.op = "setGraph" /\ (last'.null \/ last'.nodes = 0)) =>
       /\ scene_graph_' = scene_graph_
       /\ need_redraw_' = need_redraw_
       /\ sent' = NoneSent
       /\ retained' = retained]_vars

C10_Witness ==
  /\ last.op = "setGraph"
  /\ ~last.null
  /\ last.nodes = 0
  /\ ~scene_graph_.null
  /\ ~need_redraw_
  /\ \E ch \in Channels : retained[ch] # {}

\* C6 (the claim as stated): every bounding-box primitive a pass transmits
\* is on the bounding-boxes channel and on no other, and the labels channel
\* carries only label primitives.
C6_OwnChannel ==
  last.op = "redraw" =>
    \A ch \in Channels : \A m \in SentMarkers(ch) :
      /\ m.ns.name = "layer_bounding_boxes" => ch = "bounding_boxes"
      /\ ch = "instance_ids" => m.ns.name = "layer_text"

\* C7 (the claim as stated): a batch is transmitted only if it is non-empty,
\* where a batch of delete primitives only counts as empty.
C7_OnlyNonEmptySent ==
  last.op = "redraw" =>
    \A ch \in Channels : \A a \in Arrays(ch) :
      \E m \in Markers(a) : m.action # "DELETE"

\* C7 (amended): a batch for centroids, bounding boxes, labels or
\* surface-sample edges is transmitted only if it holds at least one
\* primitive, add or delete; once displayLayers has built its batches, each
\* that holds a primitive is transmitted, also when all of them are deletes;
\* and the node-to-node batch is transmitted whenever displayEdges completes,
\* also when it is empty.
C7_SentIffHoldsPrimitive ==
  (last.op = "redraw" /\ pass.ran) =>
    /\ \A ch \in LayerChannels : \A a \in Arrays(ch) : a # <<>>
    /\ pass.layersDone =>
         /\ sent["semantic_instance_centroid"] =
              IF pass.arrays.layer_centroids # <<>>
              THEN <<pass.arrays.layer_centroids>> ELSE <<>>
         /\ sent["instance_ids"] =
              IF pass.arrays.text_markers # <<>>
              THEN <<pass.arrays.text_markers>> ELSE <<>>
         /\ sent["edges_centroid_pcl"] =
              IF pass.arrays.line_assoc_markers # <<>>
              THEN <<pass.arrays.line_assoc_markers>> ELSE <<>>
    /\ sent["edges_node_node"] =
         IF pass.status = "ok" THEN <<pass.edge_markers>> ELSE <<>>

\* An all-delete batch and an empty node-to-node batch, both transmitted.
C7_Witness ==
  /\ last.op = "redraw"
  /\ pass.status = "ok"
  /\ sent["edges_node_node"] = << <<>> >>
  /\ Len(sent["semantic_instance_centroid"]) = 1
  /\ \A m \in SentMarkers("semantic_instance_centroid") : m.action = "DELETE"

\* The layer a marker of the displayLayers / displayEdges batches is for.
MarkerLayer(m) ==
  IF m.ns.name \in {"layer_centroids", "mesh_layer_edges", "graph_edges"}
  THEN m.id ELSE m.ns.layer

Unconfigured == layers(scene_graph_) \ DOMAIN layer_configs_

\* C4 (the claim as stated): on a graph with a layer that has no registered
\* LayerConfig a pass completes with no error escaping, transmits nothing for
\* that layer and transmits the centroid batch of every configured layer.
C4_UnconfiguredLayerSkipped ==
  (last.op = "redraw" /\ pass.ran /\ Unconfigured # {}) =>
    /\ pass.status = "ok"
    /\ \A ch \in Channels : \A m \in SentMarkers(ch) :
         MarkerLayer(m) \notin Unconfigured
    /\ \A l \in layers(scene_graph_) \cap DOMAIN layer_configs_ :
         \E m \in SentMarkers("semantic_instance_centroid") : m.id = l

NodeIds(graph, l) == {graph.nodes[l][i].id : i \in 1..Len(graph.nodes[l])}

\* An add marker with geometry that the transport holds under a key of layer
\* l of the held graph: its centroid batch, a label or a box of one of its
\* nodes, its surface-sample edges, its intra-layer edges, its inter-layer
\* batch, or inter-layer edge points at one of its nodes.
HoldsGeometryOf(m, l) ==
  \/ m.ns.name \in {"layer_centroids", "mesh_layer_edges"}
       /\ m.id = l /\ m.points # <<>>
  \/ m.ns.name \in {"layer_text", "layer_bounding_boxes"}
       /\ m.ns.layer = l /\ m.id \in NodeIds(scene_graph_, l)
  \/ m.ns.name = "layer_edges" /\ m.ns.layer = l /\ m.points # <<>>
  \/ m.ns.name = "graph_edges" /\ m.id = l /\ m.points # <<>>
  \/ m.ns.name = "graph_edges"
       /\ \E i \in 1..Len(m.points) : m.points[i].node \in NodeIds(scene_graph_, l)

\* C3 (the claim as stated): with the graph unchanged, once a pass drew
\* layer l visible and l was then set to visualize=false, the transport
\* holds no geometry of l after the next tick (a tick that has returned to
\* its caller).
C3_HiddenLayerRetracted ==
  (last.op = "redraw" /\ pass.ran /\ running /\ unchanged) =>
    \A l \in drawn \cap DOMAIN layer_configs_ :
      ~layer_configs_[l].visualize =>
        \A ch \in Channels : \A m \in retained[ch] : ~HoldsGeometryOf(m, l)

----------------------------------------------------------------------------
\* Properties of the builders (specification SpecBuild).

BuiltMarkers ==
  Markers(pass.arrays.layer_centroids) \cup Markers(pass.arrays.text_markers)
    \cup Markers(pass.arrays.line_assoc_markers)
    \cup Markers(pass.arrays.bounding_boxes) \cup Markers(pass.edge_markers)

HiddenLayers ==
  {l \in layers(scene_graph_) \cap DOMAIN layer_configs_ :
     ~layer_configs_[l].visualize}

\* C2: every primitive a pass builds for a layer whose LayerConfig has
\* visualize=false (centroid batch, labels, boxes, surface-sample edges,
\* intra-layer edges, the inter-layer batch of that source layer) has action
\* delete and carries no points.
C2_HiddenLayerOnlyDeletes ==
  (last.op = "redraw" /\ pass.ran) =>
    \A m \in BuiltMarkers :
      MarkerLayer(m) \in HiddenLayers => (m.action = "DELETE" /\ m.points = <<>>)

C2_Witness ==
  /\ last.op = "redraw"
  /\ pass.status = "ok"
  /\ \E l \in HiddenLayers :
       /\ \E m \in Markers(pass.edge_markers) :
            m.ns.name = "graph_edges" /\ m.id = l /\ m.action = "DELETE"
       /\ \E m \in Markers(pass.edge_markers) :
            m.ns.name = "layer_edges" /\ m.ns.layer = l /\ m.action = "DELETE"
       /\ \E m \in Markers(pass.arrays.layer_centroids) :
            m.id = l /\ m.action = "DELETE"

LayerOf(id) == getNode(scene_graph_, id).layer

Visible(l) == l \in DOMAIN layer_configs_ /\ layer_configs_[l].visualize

\* The inter-layer edges of source layer l whose endpoint layers are both
\* drawn, in traversal order.
Eligible(l) ==
  SelectSeq(scene_graph_.inter,
            LAMBDA e : /\ LayerOf(e.source) = l
                       /\ Visible(l)
                       /\ Visible(LayerOf(e.target)))

RECURSIVE EveryNth(_, _, _)
EveryNth(edges, n, k) ==
  IF k > Len(edges) THEN <<>>
  ELSE (IF k % n = 0 THEN EdgePts(edges[k]) ELSE <<>>) \o EveryNth(edges, n, k + 1)

SourceLayers == {LayerOf(scene_graph_.inter[i].source) : i \in 1..Len(scene_graph_.inter)}

\* C8: the inter-layer batch of a source layer with skip count N holds
\* exactly every (N+1)-th of that layer's eligible edges, counted in traversal
\* order over the eligible edges of that layer alone.
C8_EveryNthEligible ==
  (last.op = "redraw" /\ pass.status = "ok") =>
    \A l \in SourceLayers :
      \E m \in Markers(pass.edge_markers) :
        /\ m.ns.name = "graph_edges"
        /\ m.id = l
        /\ m.points =
             EveryNth(Eligible(l),
                      layer_configs_[l].interlayer_edge_insertion_skip + 1, 1)

\* Rooms has skip count 1 and three eligible edges, the second drawn, with an
\* edge of another source layer or an ineligible edge between them.
C8_Witness ==
  /\ last.op = "redraw"
  /\ pass.status = "ok"
  /\ ROOMS \in DOMAIN layer_configs_
  /\ layer_configs_[ROOMS].interlayer_edge_insertion_skip = 1
  /\ Len(Eligible(ROOMS)) = 3
  /\ Len(scene_graph_.inter) = 4
  /\ LayerOf(scene_graph_.inter[1].source) = ROOMS
  /\ \/ LayerOf(scene_graph_.inter[2].source) = PLACES
     \/ ~Visible(LayerOf(scene_graph_.inter[2].target))
  /\ \E m \in Markers(pass.edge_markers) :
       m.id = ROOMS /\ m.ns.name = "graph_edges" /\ Len(m.points) = 2

\* C5 (the claim as stated): in a layer drawn with bounding boxes, every
\* node with Object attributes gets an add box primitive and every other
\* node gets none.
C5_EveryObjectBoxed ==
  (last.op = "redraw" /\ pass.ran) =>
    \A l \in layers(scene_graph_) \cap DOMAIN layer_configs_ :
      (layer_configs_[l].visualize /\ layer_configs_[l].use_bounding_box) =>
        \A i \in 1..Len(scene_graph_.nodes[l]) :
          LET node == scene_graph_.nodes[l][i]
              boxes == {m \in BuiltMarkers :
                          /\ m.ns = Ns("layer_bounding_boxes", l)
                          /\ m.id = node.id}
          IN IF node.kind = "Object"
             THEN \E m \in boxes : m.action = "ADD"
             ELSE boxes = {}

RECURSIVE StrideFromFirst(_, _, _)
StrideFromFirst(edges, n, k) ==
  IF k > Len(edges) THEN <<>>
  ELSE (IF (k - 1) % n = 0 THEN EdgePts(edges[k]) ELSE <<>>)
         \o StrideFromFirst(edges, n, k + 1)

\* C11 (the claim as stated): the inter-layer batch of a source layer with
\* skip count N holds the eligible edges at traversal positions 0, N+1,
\* 2(N+1), ... as the intra-layer walk does, so the first eligible edge is
\* drawn and a source layer with an eligible edge has a drawn edge.
C11_SameStride ==
  (last.op = "redraw" /\ pass.status = "ok") =>
    \A l \in SourceLayers :
      \E m \in Markers(pass.edge_markers) :
        /\ m.ns.name = "graph_edges"
        /\ m.id = l
        /\ m.points =
             StrideFromFirst(Eligible(l),
                             layer_configs_[l].interlayer_edge_insertion_skip + 1, 1)
        /\ Eligible(l) # <<>> => m.points # <<>>

\* The first position of a node of the layer whose attributes are not of
\* the Semantic kind is at or before i.
Degraded(nodes, i) == \E j \in 1..i : ~IsKind(nodes[j].kind, "Semantic")

\* C12: the centroid batch of a layer drawn without a layer color and not
\* colored by distance has one point and one color per node; a node before
\* the first node without Semantic attributes has its own color, that node
\* and every later one the sentinel red; and the builder throws nothing.
C12_DegradedColoring ==
  (last.op = "redraw" /\ pass.ran) =>
    \A l \in layers(scene_graph_) \cap DOMAIN layer_configs_ :
      (/\ layer_configs_[l].visualize
       /\ ~(visualizer_config_.color_places_by_distance /\ l = PLACES)) =>
        /\ pass.layersDone
        /\ \E m \in Markers(pass.arrays.layer_centroids) :
             LET nodes == scene_graph_.nodes[l]
             IN /\ m.ns.name = "layer_centroids"
                /\ m.id = l
                /\ m.action = "ADD"
                /\ m.points = [i \in 1..Len(nodes) |-> Pt("node", nodes[i].id, 0)]
                /\ m.colors = [i \in 1..Len(nodes) |->
                                 IF Degraded(nodes, i) THEN SentinelRed
                                 ELSE nodes[i].color]

\* A node with its own color, then one without Semantic attributes, then one
\* that has a semantic color and is drawn red.
C12_Witness ==
  /\ last.op = "redraw"
  /\ pass.layersDone
  /\ \E l \in layers(scene_graph_) :
       /\ Len(scene_graph_.nodes[l]) = 3
       /\ scene_graph_.nodes[l][1].kind = "Semantic"
       /\ scene_graph_.nodes[l][2].kind = "Node"
       /\ scene_graph_.nodes[l][3].kind = "Semantic"
       /\ \E m \in Markers(pass.arrays.layer_centroids) :
            m.id = l /\ m.colors = <<"blue", SentinelRed, SentinelRed>>

\* C13 (the claim as stated): for a drawn layer with intra-layer edges and
\* skip count N the walk of makeLayerEdgeMarkers ends at the end of the edge
\* set without passing it, and the batch holds exactly the edges at
\* traversal positions 0, N+1, 2(N+1), ...
C13_WalkEndsAtEnd ==
  (last.op = "redraw" /\ pass.ran /\ pass.status # "throw") =>
    \A l \in layers(scene_graph_) \cap DOMAIN layer_configs_ :
      (layer_configs_[l].visualize /\ scene_graph_.edges[l] # <<>>) =>
        /\ running
        /\ pass.status = "ok"
        /\ \E m \in Markers(pass.edge_markers) :
             /\ m.ns = Ns("layer_edges", l)
             /\ m.action = "ADD"
             /\ m.points =
                  StrideFromFirst(scene_graph_.edges[l],
                                  layer_configs_[l].intralayer_edge_insertion_skip + 1,
                                  1)

\* C14 (the claim as stated): every inter-layer batch that
\* makeGraphEdgeMarkers returns is consistent: a delete batch has no points
\* and no colors, and the batch of a source layer with an edge whose two
\* endpoint layers are drawn is an add batch.
C14_BatchConsistent ==
  (last.op = "redraw" /\ pass.status = "ok") =>
    \A m \in Markers(pass.edge_markers) :
      m.ns.name = "graph_edges" =>
        /\ m.action = "DELETE" => (m.points = <<>> /\ m.colors = <<>>)
        /\ Eligible(m.id) # <<>> => m.action = "ADD"

====
